---- MODULE Spec2Model ----
(***************************************************************************)
(* State-machine model of three React components of LunaTV:               *)
(*   AIRecommendModal  - chat transcript, local-storage cache, remote call *)
(*   AIRecommendConfig - admin settings form with validation and save      *)
(*   YouTubeVideoCard  - preview / embedded playback toggle                *)
(*                                                                         *)
(* Every state of the model is a state between two browser events: an      *)
(* action is one event handler (or one promise continuation) together with *)
(* the re-render and the effects that React runs for its state updates.    *)
(*                                                                         *)
(* Text is a sequence of one-character strings so that String.trim can be  *)
(* computed.  A chat message is modelled by its role and content; the ISO  *)
(* timestamp and the recommendation list of a message are not modelled.    *)
(***************************************************************************)
EXTENDS Integers, Sequences, FiniteSets, TLC

\* ---------------------------------------------------------------- bounds
\* longest transcript of the general chat specification
MaxMsgs == 5
\* longest transcript of the context-window specification
MaxWindowMsgs == 12
\* last instant of the wall clock
MaxNow == 3600000
\* number of local-storage operations that may throw in one behaviour
MaxFaults == 2
\* number of status-message timers of the admin form that may be pending
MaxTimers == 2
\* longest transcript of the two-instance specification
MaxTabMsgs == 3
\* number of video cards on the page
MaxCards == 3
\* number of windows that the cards may open in one behaviour
MaxWindows == 2

\* ------------------------------------------------------- program constants
CACHE_TTL == 30 * 60 * 1000
ContextSize == 8
\* the admin form; temperatures are counted in tenths (2 is 20, 0.7 is 7)
TemperatureMin == 0
TemperatureMax == 20
TokensMin == 1
TokensMax == 4000
DefaultTemperature == 7
DefaultMaxTokens == 1000

Tabs == {1, 2}

Min(a, b) == IF a < b THEN a ELSE b
Max(a, b) == IF a > b THEN a ELSE b

\* ------------------------------------------------------------------- text
IsSpace(c) == c = " "

RECURSIVE TrimStart(_)
TrimStart(s) ==
  IF s # <<>> /\ IsSpace(Head(s)) THEN TrimStart(Tail(s)) ELSE s

RECURSIVE TrimEnd(_)
TrimEnd(s) ==
  IF s # <<>> /\ IsSpace(s[Len(s)]) THEN TrimEnd(SubSeq(s, 1, Len(s) - 1)) ELSE s

Trim(s) == TrimEnd(TrimStart(s))

\* slice that loses one element of the window
SliceOffByOne(s, start) ==
  LET len == Len(s)
      k   == IF start < 0 THEN Max(len + start + 1, 0) ELSE Min(start, len)
  IN  SubSeq(s, k + 1, len)

\* Array.prototype.slice(start) with one argument
Slice(s, start) ==
  LET len == Len(s)
      k   == IF start < 0 THEN Max(len + start, 0) ELSE Min(start, len)
  IN  SubSeq(s, k + 1, len)

\* ------------------------------------------------------------ JS values
Null == [null |-> TRUE]
\* the value of a property that is not there
Undefined == <<"undefined">>

WelcomeText == <<"w">>
welcomeMessage == [role |-> "assistant", content |-> WelcomeText]

UserMessage(content) == [role |-> "user", content |-> Trim(content)]
AssistantMessage(content) == [role |-> "assistant", content |-> content]

Content(m) == IF "content" \in DOMAIN m THEN m.content ELSE Undefined

\* ---------------------------------------------------------- local storage
\* What the key 'ai-recommend-messages' holds: nothing, or a text.
Absent == [kind |-> "absent"]
EmptyText == [kind |-> "text", json |-> FALSE, empty |-> TRUE]
GarbageText == [kind |-> "text", json |-> FALSE, empty |-> FALSE]
JsonText(v) == [kind |-> "text", json |-> TRUE, empty |-> FALSE, value |-> v]

\* JSON.stringify leaves out the properties whose value is undefined
StripMessage(m) ==
  IF Content(m) = Undefined THEN [role |-> m.role] ELSE [role |-> m.role, content |-> m.content]

JSONstringifyCache(msgs, ts) ==
  JsonText([messages  |-> [isArray |-> TRUE, items |-> [i \in 1..Len(msgs) |-> StripMessage(msgs[i])]],
            timestamp |-> ts])

\* a restore that puts the welcome message in front of the cached ones
RestoreMessagesAfterWelcome(items) ==
  <<[role |-> "assistant", content |-> <<"w">>]>> \o
  [i \in 1..Len(items) |-> IF "content" \in DOMAIN items[i]
                              THEN [role |-> items[i].role, content |-> items[i].content]
                              ELSE [role |-> items[i].role, content |-> Undefined]]

\* storedMessages.map(msg => ({...msg, timestamp: msg.timestamp || ...}))
RestoreMessage(m) ==
  IF "content" \in DOMAIN m THEN [role |-> m.role, content |-> m.content]
                            ELSE [role |-> m.role, content |-> Undefined]

RestoreMessages(items) == [i \in 1..Len(items) |-> RestoreMessage(items[i])]

\* a freshness test that keeps a record of exactly 30 minutes
IsFreshInclusive(cache, t) ==
  /\ "timestamp" \in DOMAIN cache
  /\ t - cache.timestamp <= 30 * 60 * 1000

\* now - timestamp < 30 * 60 * 1000; a missing timestamp gives NaN, and
\* every comparison with NaN is false
IsFresh(cache, t) ==
  /\ "timestamp" \in DOMAIN cache
  /\ t - cache.timestamp < CACHE_TTL

\* The load effect.  threw = TRUE: the catch branch ran and setMessages was
\* never called, so the transcript keeps its initial value [].
LoadEffect(cached, getThrows, t) ==
  IF getThrows THEN [threw |-> TRUE, messages |-> <<>>]
  ELSE IF cached.kind = "text" /\ ~cached.empty THEN
         IF ~cached.json THEN [threw |-> TRUE, messages |-> <<>>]
         ELSE IF cached.value = Null THEN [threw |-> TRUE, messages |-> <<>>]
         ELSE IF IsFresh(cached.value, t) THEN
                IF "messages" \in DOMAIN cached.value /\ cached.value.messages.isArray
                  THEN [threw |-> FALSE, messages |-> RestoreMessages(cached.value.messages.items)]
                  ELSE [threw |-> TRUE, messages |-> <<>>]
         ELSE [threw |-> FALSE, messages |-> <<welcomeMessage>>]
       ELSE [threw |-> FALSE, messages |-> <<welcomeMessage>>]

\* a save effect that does not cache a transcript of one message
SaveEffectSkipsSingle(old, msgs, t, setThrows) ==
  IF setThrows \/ Len(msgs) = 1 THEN old ELSE JSONstringifyCache(msgs, t)

\* a save effect that writes again after a write that threw
SaveEffectRetries(old, msgs, t, setThrows) == JSONstringifyCache(msgs, t)

\* a save effect that keeps a longer transcript that the key already holds
SaveEffectKeepsLonger(old, msgs, t, setThrows) ==
  IF setThrows THEN old
  ELSE IF /\ old.kind = "text" /\ old.json /\ old.value # Null
          /\ "messages" \in DOMAIN old.value /\ old.value.messages.isArray
          /\ Len(old.value.messages.items) > Len(msgs)
         THEN old
         ELSE JSONstringifyCache(msgs, t)

\* The save effect: one localStorage.setItem, which may throw.
SaveEffect(old, msgs, t, setThrows) ==
  IF setThrows THEN old ELSE JSONstringifyCache(msgs, t)

\* ------------------------------------------------------------ remote call
\* Shapes of the value that sendAIRecommendMessage resolves with.
ReplyText == <<"r">>
GoodResponse == [choices |-> <<[message |-> [role |-> "assistant", content |-> ReplyText]]>>]
NoContentResponse == [choices |-> <<[message |-> [role |-> "assistant"]]>>]
NoMessageResponse == [choices |-> <<[index |-> 0]>>]
EmptyChoicesResponse == [choices |-> <<>>]
NoChoicesResponse == [status |-> "ok"]

Responses ==
  {GoodResponse, NoContentResponse, NoMessageResponse, EmptyChoicesResponse, NoChoicesResponse}

\* Values that the awaited call can reject with.
JsonBoth == "{\"error\":\"E\",\"details\":\"D\"}"
JsonErrorOnly == "{\"error\":\"E\"}"
JsonDetailsOnly == "{\"details\":\"D\"}"
JsonNull == "null"
PlainText == "Failed to fetch"

JsonEmpty == "{}"
ErrorTexts == {JsonBoth, JsonErrorOnly, JsonDetailsOnly, JsonEmpty, JsonNull, PlainText, ""}

Thrown == [isError : {TRUE}, message : ErrorTexts] \cup {[isError |-> FALSE]}

TypeErrorThrown == [isError |-> TRUE, message |-> "Cannot read properties of undefined"]

Outcomes ==
  [kind : {"resolve"}, response : Responses] \cup [kind : {"reject"}, thrown : Thrown]

\* JSON.parse on the message of a thrown Error
JSONparse(s) ==
  CASE s = JsonBoth        -> [threw |-> FALSE, value |-> [error |-> "E", details |-> "D"]]
    [] s = JsonErrorOnly   -> [threw |-> FALSE, value |-> [error |-> "E"]]
    [] s = JsonDetailsOnly -> [threw |-> FALSE, value |-> [details |-> "D"]]
    [] s = JsonEmpty       -> [threw |-> FALSE, value |-> [x \in {} |-> ""]]
    [] s = JsonNull        -> [threw |-> FALSE, value |-> Null]
    [] OTHER               -> [threw |-> TRUE]

\* response.choices[0].message.content: a property read on undefined throws
\* a TypeError, a property that is not there reads as undefined
ReadContent(r) ==
  IF "choices" \notin DOMAIN r THEN [threw |-> TRUE, thrown |-> TypeErrorThrown]
  ELSE IF Len(r.choices) = 0 THEN [threw |-> TRUE, thrown |-> TypeErrorThrown]
  ELSE IF "message" \notin DOMAIN r.choices[1] THEN [threw |-> TRUE, thrown |-> TypeErrorThrown]
  ELSE [threw |-> FALSE, content |-> Content(r.choices[1].message)]

FallbackDetails == "contact the administrator to check the AI configuration"
UnknownMessage == "request failed, try again later"
UnknownDetails == "unknown error, check the network connection"

\* a catch branch that keeps the message only
ErrorStateMessageOnly(thrown) ==
  [message |-> IF thrown.isError THEN thrown.message ELSE UnknownMessage]

\* the catch branch of sendMessage: the value given to setError
ErrorState(thrown) ==
  IF thrown.isError THEN
    LET p == JSONparse(thrown.message) IN
    IF p.threw \/ p.value = Null
      THEN [message |-> thrown.message, details |-> FallbackDetails]
      ELSE LET m == IF "error" \in DOMAIN p.value /\ p.value.error # ""
                      THEN p.value.error ELSE thrown.message
           IN  IF "details" \in DOMAIN p.value
                 THEN [message |-> m, details |-> p.value.details]
                 ELSE [message |-> m]
  ELSE [message |-> UnknownMessage, details |-> UnknownDetails]

\* ------------------------------------------------------------------ state
VARIABLES
  mounted,       \* mounted[t]: modal instance t (one per browser tab) exists
  messages,      \* useState messages
  inputMessage,  \* useState inputMessage
  isLoading,     \* useState isLoading
  error,         \* useState error
  calls,         \* calls[t]: the awaited remote calls with their closures
  storage,       \* localStorage['ai-recommend-messages']
  now,           \* the wall clock, in ms
  saveFailed,    \* saveFailed[t]: the last run of the save effect threw
  faults,        \* number of storage operations that threw so far
  lastOp         \* the handler that ran last, with its inputs

chatVars ==
  <<mounted, messages, inputMessage, isLoading, error, calls, storage, now, saveFailed, faults,
    lastOp>>

VARIABLES
  aiSettings,     \* useState aiSettings of the admin form
  cfgLoading,     \* useState isLoading of the admin form
  cfgMessage,     \* useState message of the admin form
  timers,         \* number of pending setTimeout callbacks of showMessage
  savePending,    \* POST /api/admin/ai-recommend requests in flight (their bodies)
  testPending,    \* POST /api/admin/ai-recommend/test requests in flight
  refreshPending, \* refreshConfig() calls awaited
  cfgLast         \* the admin-form handler that ran last, with its inputs

configVars ==
  <<aiSettings, cfgLoading, cfgMessage, timers, savePending, testPending, refreshPending, cfgLast>>

VARIABLES
  isPlaying,      \* isPlaying[c]: useState isPlaying of video card c
  imageError,     \* imageError[c]: useState imageError of video card c
  windows,        \* the cards whose video window.open has opened, in order
  cardLast        \* the video-card handler that ran last, with its inputs

cardVars == <<isPlaying, imageError, windows, cardLast>>

vars == <<chatVars, configVars, cardVars>>

Idle == [op |-> "idle"]

Count(b) == IF b THEN 1 ELSE 0

\* what the environment may have left under the key before the first mount
InitialStorage ==
  {Absent, EmptyText, GarbageText, JsonText(Null),
   JsonText([timestamp |-> 0]),
   JsonText([messages |-> [isArray |-> FALSE], timestamp |-> 0]),
   JsonText([messages |-> [isArray |-> TRUE, items |-> <<>>]])}

InitChat(stored) ==
  /\ mounted = [t \in Tabs |-> FALSE]
  /\ messages = [t \in Tabs |-> <<>>]
  /\ inputMessage = [t \in Tabs |-> <<>>]
  /\ isLoading = [t \in Tabs |-> FALSE]
  /\ error = [t \in Tabs |-> Null]
  /\ calls = [t \in Tabs |-> <<>>]
  /\ saveFailed = [t \in Tabs |-> FALSE]
  /\ storage \in stored
  /\ now = 0
  /\ faults = 0
  /\ lastOp = Idle

\* ---------------------------------------------------------------- actions
\* a reply appended to the truncated history that was sent
ReplyTranscriptOfPayload(call, assistantMessage) == call.payload \o <<assistantMessage>>

\* setMessages([...updatedMessages, assistantMessage])
ReplyTranscript(call, assistantMessage) == call.updatedMessages \o <<assistantMessage>>

\* Mount: first render with messages = [], then the load effect and the save
\* effect; when the load effect called setMessages, the re-render runs the
\* save effect once more.
Mount(t, getThrows, set1Throws, set2Throws) ==
  /\ ~mounted[t]
  /\ faults + Count(getThrows) + Count(set1Throws) + Count(set2Throws) <= MaxFaults
  /\ LET load == LoadEffect(storage, getThrows, now)
         s1   == SaveEffect(storage, <<>>, now, set1Throws)
     IN  /\ load.threw => ~set2Throws
         /\ messages' = [messages EXCEPT ![t] = load.messages]
         /\ storage' = IF load.threw THEN s1 ELSE SaveEffect(s1, load.messages, now, set2Throws)
         /\ saveFailed' = [saveFailed EXCEPT ![t] = IF load.threw THEN set1Throws ELSE set2Throws]
         /\ lastOp' = [op |-> "mount", tab |-> t, cached |-> storage, getThrew |-> getThrows,
                       failed |-> load.threw \/ set1Throws \/ set2Throws,
                       setThrew |-> IF load.threw THEN set1Throws ELSE set2Throws,
                       base |-> IF load.threw THEN storage ELSE s1]
  /\ mounted' = [mounted EXCEPT ![t] = TRUE]
  /\ inputMessage' = [inputMessage EXCEPT ![t] = <<>>]
  /\ isLoading' = [isLoading EXCEPT ![t] = FALSE]
  /\ error' = [error EXCEPT ![t] = Null]
  /\ calls' = [calls EXCEPT ![t] = <<>>]
  /\ faults' = faults + Count(getThrows) + Count(set1Throws) + Count(set2Throws)
  /\ UNCHANGED now
  /\ UNCHANGED <<configVars, cardVars>>

\* The component goes away; the continuation of a call still in flight then
\* updates nothing.
Unmount(t) ==
  /\ mounted[t]
  /\ mounted' = [mounted EXCEPT ![t] = FALSE]
  /\ messages' = [messages EXCEPT ![t] = <<>>]
  /\ inputMessage' = [inputMessage EXCEPT ![t] = <<>>]
  /\ isLoading' = [isLoading EXCEPT ![t] = FALSE]
  /\ error' = [error EXCEPT ![t] = Null]
  /\ calls' = [calls EXCEPT ![t] = <<>>]
  /\ saveFailed' = [saveFailed EXCEPT ![t] = FALSE]
  /\ lastOp' = Idle
  /\ UNCHANGED <<storage, now, faults>>
  /\ UNCHANGED <<configVars, cardVars>>

\* a guard that forgets the request in flight
ReturnsEarlyBlankOnly(content, loading) == Trim(content) = <<>>

\* if (!content.trim() || isLoading) return;
ReturnsEarly(content, loading) == Trim(content) = <<>> \/ loading

\* sendMessage up to its await; limit caps the length of the transcript
SendMessage(t, content, setThrows, limit) ==
  /\ mounted[t]
  /\ IF ReturnsEarly(content, isLoading[t])
       THEN /\ ~setThrows
            /\ lastOp' = [op |-> "send", tab |-> t, issued |-> FALSE, content |-> content,
                          before |-> messages[t],
                          failed |-> FALSE, setThrew |-> FALSE, base |-> storage]
            /\ UNCHANGED <<messages, inputMessage, isLoading, error, calls, storage, saveFailed, faults>>
       ELSE /\ Len(messages[t]) + 2 <= limit
            /\ faults + Count(setThrows) <= MaxFaults
            /\ LET userMessage     == UserMessage(content)
                   updatedMessages == messages[t] \o <<userMessage>>
                   conversationHistory == Slice(updatedMessages, -ContextSize)
               IN  /\ messages' = [messages EXCEPT ![t] = Append(messages[t], userMessage)]
                   /\ calls' = [calls EXCEPT ![t] = Append(calls[t],
                                  [messages |-> messages[t], updatedMessages |-> updatedMessages,
                                   payload |-> conversationHistory])]
                   /\ storage' = SaveEffect(storage, messages'[t], now, setThrows)
            /\ inputMessage' = [inputMessage EXCEPT ![t] = <<>>]
            /\ isLoading' = [isLoading EXCEPT ![t] = TRUE]
            /\ error' = [error EXCEPT ![t] = Null]
            /\ saveFailed' = [saveFailed EXCEPT ![t] = setThrows]
            /\ faults' = faults + Count(setThrows)
            /\ lastOp' = [op |-> "send", tab |-> t, issued |-> TRUE, content |-> content,
                          before |-> messages[t],
                          failed |-> setThrows, setThrew |-> setThrows, base |-> storage]
  /\ UNCHANGED <<mounted, now>>
  /\ UNCHANGED <<configVars, cardVars>>

\* sendMessage after its await: the awaited call settles
Settle(t, outcome, setThrows) ==
  /\ mounted[t] /\ calls[t] # <<>>
  /\ faults + Count(setThrows) <= MaxFaults
  /\ LET call == Head(calls[t])
         read == IF outcome.kind = "resolve" THEN ReadContent(outcome.response)
                                             ELSE [threw |-> TRUE, thrown |-> outcome.thrown]
     IN  /\ IF ~read.threw
              THEN /\ messages' = [messages EXCEPT
                          ![t] = ReplyTranscript(call, AssistantMessage(read.content))]
                   /\ storage' = SaveEffect(storage, messages'[t], now, setThrows)
                   /\ saveFailed' = [saveFailed EXCEPT ![t] = setThrows]
                   /\ UNCHANGED error
              ELSE /\ ~setThrows
                   /\ error' = [error EXCEPT ![t] = ErrorState(read.thrown)]
                   /\ UNCHANGED <<messages, storage, saveFailed>>
         /\ lastOp' = [op |-> "settle", tab |-> t, outcome |-> outcome, call |-> call,
                       before |-> messages[t], wrote |-> ~read.threw,
                       failed |-> setThrows, setThrew |-> setThrows, base |-> storage]
  /\ isLoading' = [isLoading EXCEPT ![t] = FALSE]
  /\ calls' = [calls EXCEPT ![t] = Tail(calls[t])]
  /\ faults' = faults + Count(setThrows)
  /\ UNCHANGED <<mounted, inputMessage, now>>
  /\ UNCHANGED <<configVars, cardVars>>

\* resetChat; the button is rendered only while the transcript is not empty
ResetChat(t, removeThrows, setThrows) ==
  /\ mounted[t]
  /\ Len(messages[t]) > 0
  /\ faults + Count(removeThrows) + Count(setThrows) <= MaxFaults
  /\ LET removed == IF removeThrows THEN storage ELSE Absent
     IN  /\ messages' = [messages EXCEPT ![t] = <<welcomeMessage>>]
         /\ storage' = SaveEffect(removed, messages'[t], now, setThrows)
         /\ lastOp' = [op |-> "reset", tab |-> t, before |-> messages[t],
                       failed |-> removeThrows \/ setThrows, setThrew |-> setThrows,
                       base |-> removed]
  /\ error' = [error EXCEPT ![t] = Null]
  /\ inputMessage' = [inputMessage EXCEPT ![t] = <<>>]
  /\ saveFailed' = [saveFailed EXCEPT ![t] = setThrows]
  /\ faults' = faults + Count(removeThrows) + Count(setThrows)
  /\ UNCHANGED <<mounted, isLoading, calls, now>>
  /\ UNCHANGED <<configVars, cardVars>>

\* typing in the textarea, which is disabled while a request is in flight
InputTexts == {<<" ">>, <<" ", "a", " ">>}
\* the message of a preset question
PresetTexts == {<<"a">>}

SetInput(t, text) ==
  /\ mounted[t] /\ ~isLoading[t]
  /\ inputMessage[t] # text
  /\ inputMessage' = [inputMessage EXCEPT ![t] = text]
  /\ lastOp' = Idle
  /\ UNCHANGED <<mounted, messages, isLoading, error, calls, storage, now, saveFailed, faults>>
  /\ UNCHANGED <<configVars, cardVars>>

\* the close button of the error banner
DismissError(t) ==
  /\ mounted[t] /\ error[t] # Null
  /\ error' = [error EXCEPT ![t] = Null]
  /\ lastOp' = Idle
  /\ UNCHANGED <<mounted, messages, inputMessage, isLoading, calls, storage, now, saveFailed, faults>>
  /\ UNCHANGED <<configVars, cardVars>>

\* time passes
Tick(d) ==
  /\ now + d <= MaxNow
  /\ now' = now + d
  /\ lastOp' = Idle
  /\ UNCHANGED <<mounted, messages, inputMessage, isLoading, error, calls, storage, saveFailed, faults>>
  /\ UNCHANGED <<configVars, cardVars>>

\* ------------------------------------------------------------ admin form
\* A JS number: an integer (a temperature counts tenths) or NaN.
Num(n) == [nan |-> FALSE, n |-> n]
NaN == [nan |-> TRUE, n |-> 0]
\* a < b on JS numbers: false as soon as one side is NaN
Less(a, b) == ~a.nan /\ ~b.nan /\ a.n < b.n

Digits == {"0", "1", "2", "3", "4", "5", "6", "7", "8", "9"}

DigitValue(c) ==
  CASE c = "0" -> 0 [] c = "1" -> 1 [] c = "2" -> 2 [] c = "3" -> 3 [] c = "4" -> 4
    [] c = "5" -> 5 [] c = "6" -> 6 [] c = "7" -> 7 [] c = "8" -> 8 [] c = "9" -> 9

RECURSIVE ParseDigits(_, _, _)
ParseDigits(s, acc, seen) ==
  IF s # <<>> /\ Head(s) \in Digits
    THEN ParseDigits(Tail(s), 10 * acc + DigitValue(Head(s)), TRUE)
    ELSE IF seen THEN Num(acc) ELSE NaN

\* parseInt(text): optional sign, then the leading digits; NaN without a digit
ParseInt(s) ==
  LET neg  == s # <<>> /\ Head(s) = "-"
      r    == ParseDigits(IF neg THEN Tail(s) ELSE s, 0, FALSE)
  IN  IF r.nan THEN NaN ELSE IF neg THEN Num(0 - r.n) ELSE r

DefaultApiUrl == <<"u">>
DefaultModel == <<"g">>
SomeKey == <<"k">>

InitialSettings ==
  [enabled |-> FALSE, apiUrl |-> DefaultApiUrl, apiKey |-> <<>>, model |-> DefaultModel,
   temperature |-> Num(DefaultTemperature), maxTokens |-> Num(DefaultMaxTokens)]

\* config.AIRecommendConfig as the backend may deliver it; a field may be absent
BackendConfigs ==
  {[enabled |-> TRUE, apiUrl |-> DefaultApiUrl, apiKey |-> SomeKey, model |-> DefaultModel,
    temperature |-> Num(20), maxTokens |-> Num(4000)],
   [enabled |-> TRUE, apiUrl |-> <<>>, apiKey |-> SomeKey, model |-> <<>>,
    temperature |-> Num(21), maxTokens |-> Num(1)],
   [enabled |-> TRUE, apiKey |-> SomeKey, temperature |-> Num(0), maxTokens |-> Num(4001)],
   [apiKey |-> SomeKey, temperature |-> Num(0 - 1), maxTokens |-> Num(0)]}

\* a || b on texts, a ?? b on the other fields
OrElse(c, f, d) == IF f \in DOMAIN c /\ c[f] # <<>> THEN c[f] ELSE d
Coalesce(c, f, d) == IF f \in DOMAIN c THEN c[f] ELSE d

\* the settings that the config effect sets
FromConfig(c) ==
  [enabled     |-> Coalesce(c, "enabled", FALSE),
   apiUrl      |-> OrElse(c, "apiUrl", DefaultApiUrl),
   apiKey      |-> OrElse(c, "apiKey", <<>>),
   model       |-> OrElse(c, "model", DefaultModel),
   temperature |-> Coalesce(c, "temperature", Num(DefaultTemperature)),
   maxTokens   |-> Coalesce(c, "maxTokens", Num(DefaultMaxTokens))]

\* a validation that forgets the upper limit of the token count
ValidationErrorNoUpperLimit(s) ==
  IF ~s.enabled THEN ""
  ELSE IF Trim(s.apiUrl) = <<>> THEN "fill in the API address"
  ELSE IF Trim(s.apiKey) = <<>> THEN "fill in the API key"
  ELSE IF Trim(s.model) = <<>> THEN "choose or fill in the model name"
  ELSE IF Less(s.temperature, Num(TemperatureMin)) \/ Less(Num(TemperatureMax), s.temperature)
    THEN "temperature must be within 0-2"
  ELSE IF Less(s.maxTokens, Num(TokensMin))
    THEN "max tokens must be within 1-4000"
  ELSE ""

\* the validation of handleSave: the text of the error, or "" when it passes
ValidationError(s) ==
  IF ~s.enabled THEN ""
  ELSE IF Trim(s.apiUrl) = <<>> THEN "fill in the API address"
  ELSE IF Trim(s.apiKey) = <<>> THEN "fill in the API key"
  ELSE IF Trim(s.model) = <<>> THEN "choose or fill in the model name"
  ELSE IF Less(s.temperature, Num(TemperatureMin)) \/ Less(Num(TemperatureMax), s.temperature)
    THEN "temperature must be within 0-2"
  ELSE IF Less(s.maxTokens, Num(TokensMin)) \/ Less(Num(TokensMax), s.maxTokens)
    THEN "max tokens must be within 1-4000"
  ELSE ""

\* JSON.stringify(aiSettings): NaN is written as null
JsonNumber(x) == IF x.nan THEN Null ELSE x

\* a body that leaves the key out
JSONstringifySettingsWithoutKey(s) ==
  [enabled |-> s.enabled, apiUrl |-> s.apiUrl, model |-> s.model,
   temperature |-> JsonNumber(s.temperature), maxTokens |-> JsonNumber(s.maxTokens)]

JSONstringifySettings(s) ==
  [enabled |-> s.enabled, apiUrl |-> s.apiUrl, apiKey |-> s.apiKey, model |-> s.model,
   temperature |-> JsonNumber(s.temperature), maxTokens |-> JsonNumber(s.maxTokens)]

InitConfig ==
  /\ aiSettings = InitialSettings
  /\ cfgLoading = FALSE
  /\ cfgMessage = Null
  /\ timers = 0
  /\ savePending = <<>>
  /\ testPending = <<>>
  /\ refreshPending = 0
  /\ cfgLast = Idle

\* showMessage(type, text): set the message and start a 3000 ms timer
ShowMessage(type, text) ==
  /\ timers < MaxTimers
  /\ cfgMessage' = [type |-> type, text |-> text]
  /\ timers' = timers + 1

\* the callback of the oldest timer: setMessage(null)
TimerFire ==
  /\ timers > 0
  /\ cfgMessage' = Null
  /\ timers' = timers - 1
  /\ cfgLast' = Idle
  /\ UNCHANGED <<aiSettings, cfgLoading, savePending, testPending, refreshPending>>
  /\ UNCHANGED <<chatVars, cardVars>>

\* the config prop changes and the config effect runs
ConfigChange(c) ==
  /\ aiSettings' = FromConfig(c)
  /\ aiSettings' # aiSettings
  /\ cfgLast' = Idle
  /\ UNCHANGED <<cfgLoading, cfgMessage, timers, savePending, testPending, refreshPending>>
  /\ UNCHANGED <<chatVars, cardVars>>

Edit(field, value) ==
  /\ aiSettings[field] # value
  /\ aiSettings' = [aiSettings EXCEPT ![field] = value]
  /\ cfgLast' = Idle
  /\ UNCHANGED <<cfgLoading, cfgMessage, timers, savePending, testPending, refreshPending>>
  /\ UNCHANGED <<chatVars, cardVars>>

\* the checkbox
SetEnabled(b) == Edit("enabled", b)

\* the text inputs, rendered only while enabled
Blank == <<" ">>
SetApiUrl(x) == aiSettings.enabled /\ Edit("apiUrl", x)
SetApiKey(x) == aiSettings.enabled /\ Edit("apiKey", x)
SetModel(x) == aiSettings.enabled /\ Edit("model", x)

\* the range input: parseFloat of a position between min 0 and max 2
SliderPositions == {0, 20}
SetTemperature(v) == aiSettings.enabled /\ Edit("temperature", Num(v))

\* the number input: parseInt of its text, "" when cleared or not numeric
TokenTexts ==
  {<<>>, <<"0">>, <<"1">>, <<"4", "0", "0", "0">>, <<"4", "0", "0", "1">>, <<"1", ".", "5">>}
SetMaxTokens(text) == aiSettings.enabled /\ Edit("maxTokens", ParseInt(text))

\* handleSave up to its await; the button is disabled while isLoading
HandleSave ==
  /\ ~cfgLoading
  /\ LET err == ValidationError(aiSettings) IN
       IF err # ""
         THEN /\ ShowMessage("error", err)
              /\ UNCHANGED <<aiSettings, cfgLoading, savePending, testPending, refreshPending>>
         ELSE /\ cfgLoading' = TRUE
              /\ savePending' = Append(savePending, JSONstringifySettings(aiSettings))
              /\ UNCHANGED <<aiSettings, cfgMessage, timers, testPending, refreshPending>>
  /\ cfgLast' = [op |-> "save", settings |-> aiSettings, loading |-> cfgLoading,
                 pending |-> savePending, refreshing |-> refreshPending]
  /\ UNCHANGED <<chatVars, cardVars>>

\* what a fetch can end with
SaveOutcomes == {"ok", "notOkWithError", "notOkNoError", "notOkNotJson", "rejected", "rejectedNoError"}

SaveFailureText(o) ==
  CASE o = "notOkWithError"  -> "E"
    [] o = "notOkNoError"    -> "save failed"
    [] o = "notOkNotJson"    -> "Unexpected token"
    [] o = "rejected"        -> "Failed to fetch"
    [] o = "rejectedNoError" -> "save failed"

\* handleSave after the fetch settled
SaveResponse(o) ==
  /\ savePending # <<>>
  /\ savePending' = Tail(savePending)
  /\ IF o = "ok"
       THEN /\ ShowMessage("success", "AI recommend configuration saved")
            /\ refreshPending' = refreshPending + 1
            /\ UNCHANGED cfgLoading
       ELSE /\ ShowMessage("error", SaveFailureText(o))
            /\ cfgLoading' = FALSE
            /\ UNCHANGED refreshPending
  /\ cfgLast' = [op |-> "saveResponse", outcome |-> o, body |-> Head(savePending),
                 refreshing |-> refreshPending]
  /\ UNCHANGED <<aiSettings, testPending>>
  /\ UNCHANGED <<chatVars, cardVars>>

\* handleSave after refreshConfig settled; a config that was fetched reaches
\* the form through the config effect
RefreshDone(ok, c) ==
  /\ refreshPending > 0
  /\ refreshPending' = refreshPending - 1
  /\ cfgLoading' = FALSE
  /\ IF ok
       THEN /\ aiSettings' = FromConfig(c)
            /\ UNCHANGED <<cfgMessage, timers>>
       ELSE /\ ShowMessage("error", "Failed to fetch")
            /\ UNCHANGED aiSettings
  /\ cfgLast' = [op |-> "refreshDone", ok |-> ok]
  /\ UNCHANGED <<savePending, testPending>>
  /\ UNCHANGED <<chatVars, cardVars>>

\* a probe that posts the whole settings record
TestBodyWholeRecord(s) == JSONstringifySettings(s)

\* the body of the probe: JSON.stringify({apiUrl, apiKey, model})
TestBody(s) == [apiUrl |-> s.apiUrl, apiKey |-> s.apiKey, model |-> s.model]

\* handleTest up to its await; the button is rendered while enabled and
\* disabled while isLoading
HandleTest ==
  /\ aiSettings.enabled /\ ~cfgLoading
  /\ IF Trim(aiSettings.apiUrl) = <<>> \/ Trim(aiSettings.apiKey) = <<>>
       THEN /\ ShowMessage("error", "fill in the API address and key first")
            /\ UNCHANGED <<cfgLoading, testPending>>
       ELSE /\ cfgLoading' = TRUE
            /\ testPending' = Append(testPending, TestBody(aiSettings))
            /\ UNCHANGED <<cfgMessage, timers>>
  /\ cfgLast' = [op |-> "test", settings |-> aiSettings, tests |-> testPending,
                 pending |-> savePending, refreshing |-> refreshPending]
  /\ UNCHANGED <<aiSettings, savePending, refreshPending>>
  /\ UNCHANGED <<chatVars, cardVars>>

TestFailureText(o) ==
  CASE o = "notOkWithError"  -> "E"
    [] o = "notOkNoError"    -> "API connection test failed"
    [] o = "notOkNotJson"    -> "HTTP 502: Bad Gateway"
    [] o = "rejected"        -> "Failed to fetch"
    [] o = "rejectedNoError" -> "API connection failed, check the network or the API configuration"

\* handleTest after the fetch settled
TestResponse(o) ==
  /\ testPending # <<>>
  /\ testPending' = Tail(testPending)
  /\ IF o = "ok"
       THEN ShowMessage("success", "API connection test succeeded")
       ELSE ShowMessage("error", TestFailureText(o))
  /\ cfgLoading' = FALSE
  /\ cfgLast' = [op |-> "testResponse", outcome |-> o, settings |-> aiSettings,
                 tests |-> testPending, pending |-> savePending, refreshing |-> refreshPending]
  /\ UNCHANGED <<aiSettings, savePending, refreshPending>>
  /\ UNCHANGED <<chatVars, cardVars>>

\* ------------------------------------------------------------ video card
Cards == 1..MaxCards

InitCard ==
  /\ isPlaying = [c \in Cards |-> FALSE]
  /\ imageError = [c \in Cards |-> FALSE]
  /\ windows = <<>>
  /\ cardLast = [op |-> "render"]

\* the elements that the card renders
Render(playing, failed) ==
  {"embedButton", "newTabButton"} \cup
  (IF playing THEN {"iframe", "closeButton"}
   ELSE {"overlayButton", "badge"} \cup (IF failed THEN {"placeholder"} ELSE {"image"}))

Rendered(c) == Render(isPlaying[c], imageError[c])

\* a play handler that toggles
HandleEmbedPlayToggles(c, button) ==
  /\ button \in Rendered(c)
  /\ isPlaying' = [isPlaying EXCEPT ![c] = ~isPlaying[c]]
  /\ cardLast' = [op |-> "play", card |-> c, button |-> button]
  /\ UNCHANGED <<imageError, windows>>
  /\ UNCHANGED <<chatVars, configVars>>

\* handleEmbedPlay, from the overlay button or the embed button
HandleEmbedPlay(c, button) ==
  /\ button \in Rendered(c)
  /\ isPlaying' = [isPlaying EXCEPT ![c] = TRUE]
  /\ cardLast' = [op |-> "play", card |-> c, button |-> button]
  /\ UNCHANGED <<imageError, windows>>
  /\ UNCHANGED <<chatVars, configVars>>

\* the close button of the player
ClosePlayer(c) ==
  /\ "closeButton" \in Rendered(c)
  /\ isPlaying' = [isPlaying EXCEPT ![c] = FALSE]
  /\ cardLast' = [op |-> "close", card |-> c]
  /\ UNCHANGED <<imageError, windows>>
  /\ UNCHANGED <<chatVars, configVars>>

\* handleOpenInNewTab: window.open of the video's page
HandleOpenInNewTab(c) ==
  /\ "newTabButton" \in Rendered(c)
  /\ Len(windows) < MaxWindows
  /\ windows' = Append(windows, c)
  /\ cardLast' = [op |-> "open", card |-> c, playing |-> isPlaying[c], failed |-> imageError[c]]
  /\ UNCHANGED <<isPlaying, imageError>>
  /\ UNCHANGED <<chatVars, configVars>>

\* onError of the thumbnail
ImageFailed(c) ==
  /\ "image" \in Rendered(c)
  /\ imageError' = [imageError EXCEPT ![c] = TRUE]
  /\ cardLast' = [op |-> "imageError", card |-> c]
  /\ UNCHANGED <<isPlaying, windows>>
  /\ UNCHANGED <<chatVars, configVars>>

\* ------------------------------------------------------- specifications
Init == InitChat(InitialStorage) /\ InitConfig /\ InitCard

\* One modal instance, every outcome of the remote call, storage operations
\* that may throw, and a clock that passes the 30-minute limit.
Next ==
  \/ \E g, s1, s2 \in BOOLEAN : Mount(1, g, s1, s2)
  \/ Unmount(1)
  \/ \E s \in BOOLEAN : \E c \in {inputMessage[1]} \cup PresetTexts : SendMessage(1, c, s, MaxMsgs)
  \/ \E o \in Outcomes, s \in BOOLEAN : Settle(1, o, s)
  \/ \E r, s \in BOOLEAN : ResetChat(1, r, s)
  \/ \E x \in InputTexts : SetInput(1, x)
  \/ DismissError(1)
  \/ \E d \in {CACHE_TTL - 1, CACHE_TTL} : Tick(d)

Spec == Init /\ [][Next]_vars

\* One modal instance with transcripts longer than the context window; the
\* storage works and the remote call either answers or fails.
WindowOutcomes ==
  {[kind |-> "resolve", response |-> GoodResponse],
   [kind |-> "reject", thrown |-> [isError |-> TRUE, message |-> PlainText]]}

NextWindow ==
  \/ Mount(1, FALSE, FALSE, FALSE)
  \/ \E c \in {inputMessage[1]} \cup PresetTexts : SendMessage(1, c, FALSE, MaxWindowMsgs)
  \/ \E o \in WindowOutcomes : Settle(1, o, FALSE)
  \/ ResetChat(1, FALSE, FALSE)
  \/ \E x \in InputTexts : SetInput(1, x)

SpecWindow == Init /\ [][NextWindow]_vars

\* Two modal instances (two tabs) on the one storage key; the storage works
\* and every handler of either instance may run between two handlers of
\* the other.
NextTabs ==
  \/ \E t \in Tabs : Mount(t, FALSE, FALSE, FALSE)
  \/ \E t \in Tabs : Unmount(t)
  \/ \E t \in Tabs, c \in PresetTexts : SendMessage(t, c, FALSE, MaxTabMsgs)
  \/ \E t \in Tabs, o \in WindowOutcomes : Settle(t, o, FALSE)
  \/ \E t \in Tabs : ResetChat(t, FALSE, FALSE)
  \/ \E d \in {CACHE_TTL - 1, CACHE_TTL} : Tick(d)

SpecTabs == Init /\ [][NextTabs]_vars

\* The admin form; the user edits the fields while no request is in flight.
NextConfig ==
  \/ \E c \in BackendConfigs : ConfigChange(c)
  \/ \E b \in BOOLEAN : ~cfgLoading /\ SetEnabled(b)
  \/ \E x \in {Blank, DefaultApiUrl} : ~cfgLoading /\ SetApiUrl(x)
  \/ \E x \in {Blank, SomeKey} : ~cfgLoading /\ SetApiKey(x)
  \/ \E x \in {Blank, DefaultModel} : ~cfgLoading /\ SetModel(x)
  \/ \E v \in SliderPositions : ~cfgLoading /\ SetTemperature(v)
  \/ \E x \in TokenTexts : ~cfgLoading /\ SetMaxTokens(x)
  \/ HandleSave
  \/ \E o \in SaveOutcomes : SaveResponse(o)
  \/ \E ok \in BOOLEAN, c \in BackendConfigs : RefreshDone(ok, c)
  \/ HandleTest
  \/ \E o \in SaveOutcomes : TestResponse(o)
  \/ TimerFire

InitAdmin == InitChat({Absent}) /\ InitConfig /\ InitCard

\* The video cards of a page.
NextCard ==
  \/ \E c \in Cards, b \in {"overlayButton", "embedButton"} : HandleEmbedPlay(c, b)
  \/ \E c \in Cards : ClosePlayer(c)
  \/ \E c \in Cards : HandleOpenInNewTab(c)
  \/ \E c \in Cards : ImageFailed(c)

SpecCard == InitAdmin /\ [][NextCard]_vars

SpecConfig == InitAdmin /\ [][NextConfig]_vars

\* ================================================================ claims
\* the key holds a record with a message list and a numeric timestamp
HoldsTranscript(c) ==
  /\ c.kind = "text" /\ c.json /\ c.value # Null
  /\ "timestamp" \in DOMAIN c.value
  /\ "messages" \in DOMAIN c.value /\ c.value.messages.isArray

\* the mount that ran last read the key without an exception
MountRead(t) == lastOp.op = "mount" /\ lastOp.tab = t /\ ~lastOp.getThrew

SameMessages(a, b) ==
  /\ Len(a) = Len(b)
  /\ \A i \in 1..Len(a) : a[i].role = b[i].role /\ Content(a[i]) = Content(b[i])

\* C1: a mount that reads a cached transcript saved 1,800,000 ms or more
\* before now restores none of it: the transcript is the welcome message alone.
C1_ExpiredCacheDiscarded ==
  \A t \in Tabs :
    (/\ MountRead(t)
     /\ HoldsTranscript(lastOp.cached)
     /\ now - lastOp.cached.value.timestamp >= 1800000)
    => messages[t] = <<[role |-> "assistant", content |-> WelcomeText]>>

C1_Witness ==
  /\ MountRead(1)
  /\ HoldsTranscript(lastOp.cached)
  /\ now - lastOp.cached.value.timestamp = 1800000
  /\ Len(lastOp.cached.value.messages.items) >= 2
  /\ messages[1] = <<welcomeMessage>>

\* C2: the payload of a send that issues a request is the last min(8, n+1)
\* elements of the transcript followed by the new user message.
C2_PayloadIsLastEight ==
  \A t \in Tabs :
    (lastOp.op = "send" /\ lastOp.tab = t /\ lastOp.issued) =>
      LET n    == Len(lastOp.before)
          user == [role |-> "user", content |-> Trim(lastOp.content)]
          u    == Append(lastOp.before, user)
          k    == IF n + 1 < 8 THEN n + 1 ELSE 8
          p    == calls[t][Len(calls[t])].payload
      IN  /\ Len(p) = k
          /\ \A i \in 1..k : p[i] = u[n + 1 - k + i]
          /\ Len(p) <= 8
          /\ p[Len(p)] = user

C2_Witness ==
  /\ lastOp.op = "send" /\ lastOp.issued
  /\ Len(lastOp.before) = 10
  /\ Len(calls[1][1].payload) = 8
  /\ calls[1][1].payload[1] = lastOp.before[4]

\* the response lets choices[0].message.content be read
ExposesContent(r) ==
  /\ "choices" \in DOMAIN r
  /\ Len(r.choices) >= 1
  /\ "message" \in DOMAIN r.choices[1]
  /\ "content" \in DOMAIN r.choices[1].message

SendFailed(o) == o.kind = "reject" \/ ~ExposesContent(o.response)

\* C3: after a send whose remote call failed, the transcript is the pre-send
\* transcript plus the user message, without an assistant message, and the
\* error state is set (sends that no reset interleaved with).
C3_FailedSendKeepsUserMessage ==
  \A t \in Tabs :
    (/\ lastOp.op = "settle" /\ lastOp.tab = t
     /\ SendFailed(lastOp.outcome)
     /\ lastOp.before = lastOp.call.updatedMessages)
    => /\ Len(messages[t]) = Len(lastOp.call.messages) + 1
       /\ SubSeq(messages[t], 1, Len(lastOp.call.messages)) = lastOp.call.messages
       /\ messages[t][Len(messages[t])].role = "user"
       /\ error[t] # Null

\* the save is rejected by one of the conditions of the claim
Invalid(s) ==
  \/ Trim(s.apiUrl) = <<>>
  \/ Trim(s.apiKey) = <<>>
  \/ Trim(s.model) = <<>>
  \/ (~s.temperature.nan /\ (s.temperature.n < 0 \/ s.temperature.n > 20))
  \/ (~s.maxTokens.nan /\ (s.maxTokens.n < 1 \/ s.maxTokens.n > 4000))

\* C4: handleSave with enabled settings that are invalid issues no request,
\* calls no refreshConfig, shows an error message and leaves the settings
\* record and isLoading as they were.
C4_InvalidSaveRejected ==
  (cfgLast.op = "save" /\ cfgLast.settings.enabled /\ Invalid(cfgLast.settings)) =>
    /\ savePending = cfgLast.pending
    /\ refreshPending = cfgLast.refreshing
    /\ cfgMessage # Null
    /\ cfgMessage.type = "error"
    /\ aiSettings = cfgLast.settings
    /\ cfgLoading = cfgLast.loading

C4_Witness ==
  /\ cfgLast.op = "save" /\ cfgLast.settings.enabled
  /\ cfgLast.settings.maxTokens = Num(4001)
  /\ Trim(cfgLast.settings.apiUrl) # <<>>
  /\ Trim(cfgLast.settings.apiKey) # <<>>
  /\ Trim(cfgLast.settings.model) # <<>>
  /\ cfgLast.settings.temperature = Num(20)
  /\ savePending = <<>>
  /\ cfgMessage # Null

\* C5: a mount that reads a cached transcript saved less than 1,800,000 ms
\* before now restores exactly the stored messages, in order, with no
\* welcome message added.
C5_FreshCacheRestored ==
  \A t \in Tabs :
    (/\ MountRead(t)
     /\ HoldsTranscript(lastOp.cached)
     /\ now - lastOp.cached.value.timestamp < 1800000)
    => SameMessages(messages[t], lastOp.cached.value.messages.items)

C5_Witness ==
  /\ MountRead(1)
  /\ HoldsTranscript(lastOp.cached)
  /\ now - lastOp.cached.value.timestamp = 1799999
  /\ Len(lastOp.cached.value.messages.items) >= 3
  /\ lastOp.cached.value.messages.items[1].role = "assistant"
  /\ lastOp.cached.value.messages.items[2].role = "user"
  /\ SameMessages(messages[1], lastOp.cached.value.messages.items)

\* the handler that ran last ran the save effect
RanSave ==
  \/ lastOp.op \in {"mount", "reset"}
  \/ lastOp.op = "send" /\ lastOp.issued
  \/ lastOp.op = "settle" /\ lastOp.wrote

\* C6: unless the last write threw, the key holds the complete transcript
\* of the mounted modal, and the record written by the handler that ran
\* last carries the time of that write.
C6_StorageMirrorsTranscript ==
  \A t \in Tabs :
    (mounted[t] /\ ~saveFailed[t]) =>
      /\ storage.kind = "text" /\ storage.json
      /\ "messages" \in DOMAIN storage.value
      /\ "timestamp" \in DOMAIN storage.value
      /\ storage.value.messages.isArray
      /\ SameMessages(storage.value.messages.items, messages[t])
      /\ RanSave => storage.value.timestamp = now

C6_Witness ==
  /\ mounted[1] /\ ~saveFailed[1]
  /\ lastOp.op = "settle" /\ lastOp.wrote
  /\ now > 0
  /\ Len(messages[1]) >= 3
  /\ storage.value.timestamp = now
  /\ SameMessages(storage.value.messages.items, messages[1])

\* C7: a successful send leaves the n prior messages unchanged and appends
\* the user message and the assistant reply, also when n >= 8.
C7_SuccessfulSendKeepsTranscript ==
  \A t \in Tabs :
    (/\ lastOp.op = "settle" /\ lastOp.tab = t
     /\ lastOp.outcome.kind = "resolve"
     /\ ExposesContent(lastOp.outcome.response))
    => LET n == Len(lastOp.call.messages) IN
         /\ Len(messages[t]) = n + 2
         /\ SubSeq(messages[t], 1, n) = lastOp.call.messages
         /\ messages[t][n + 1] = lastOp.call.updatedMessages[n + 1]
         /\ messages[t][n + 1].role = "user"
         /\ messages[t][n + 2] =
              [role |-> "assistant", content |-> lastOp.outcome.response.choices[1].message.content]

C7_Witness ==
  /\ lastOp.op = "settle"
  /\ lastOp.outcome.kind = "resolve"
  /\ Len(lastOp.call.messages) = 10
  /\ Len(lastOp.call.payload) = 8
  /\ Len(messages[1]) = 12

\* the awaited call threw: it rejected, or reading the content threw
SendThrew(o) ==
  \/ o.kind = "reject"
  \/ /\ o.kind = "resolve"
     /\ ~("choices" \in DOMAIN o.response /\ Len(o.response.choices) >= 1
          /\ "message" \in DOMAIN o.response.choices[1])

\* the thrown value is an Error whose message is JSON without a details field
JsonWithoutDetails(o) ==
  /\ o.kind = "reject"
  /\ o.thrown.isError
  /\ o.thrown.message \in {JsonErrorOnly, JsonEmpty}

\* C8 as stated: every failed send sets an error with a message and a details
\* text, and the call is not issued again.
C8_ErrorHasBothParts ==
  \A t \in Tabs :
    (lastOp.op = "settle" /\ lastOp.tab = t /\ SendThrew(lastOp.outcome)) =>
      /\ error[t] # Null
      /\ "message" \in DOMAIN error[t]
      /\ "details" \in DOMAIN error[t]
      /\ calls[t] = <<>>

\* C8 amended: every failed send sets an error with a message; the details
\* text is there unless the thrown Error carries JSON without a details
\* field, and then it is not; the call is not issued again.
C8_ErrorDetailsOptional ==
  \A t \in Tabs :
    (lastOp.op = "settle" /\ lastOp.tab = t /\ SendThrew(lastOp.outcome)) =>
      /\ error[t] # Null
      /\ "message" \in DOMAIN error[t]
      /\ ("details" \in DOMAIN error[t]) <=> ~JsonWithoutDetails(lastOp.outcome)
      /\ calls[t] = <<>>
      /\ ~isLoading[t]

C8_Witness ==
  /\ lastOp.op = "settle"
  /\ lastOp.outcome.kind = "reject"
  /\ lastOp.outcome.thrown.isError
  /\ lastOp.outcome.thrown.message = JsonErrorOnly
  /\ error[1] = [message |-> "E"]
  /\ calls[1] = <<>>

\* the handler that ran last met a storage operation that threw
StorageFailed(t) ==
  /\ lastOp.op \in {"mount", "send", "settle", "reset"}
  /\ lastOp.tab = t
  /\ lastOp.failed

\* C9: a storage operation that throws sets no error and is not repeated,
\* and once one has thrown, sendMessage and resetChat still update the
\* transcript as they do otherwise.
C9_StorageFailuresIgnored ==
  \A t \in Tabs :
    /\ StorageFailed(t) =>
         /\ error[t] = Null
         /\ lastOp.setThrew => storage = lastOp.base
    /\ (faults > 0 /\ lastOp.op = "send" /\ lastOp.tab = t /\ lastOp.issued) =>
         /\ messages[t] = Append(lastOp.before, [role |-> "user", content |-> Trim(lastOp.content)])
         /\ isLoading[t]
         /\ Len(calls[t]) = 1
    /\ (faults > 0 /\ lastOp.op = "reset" /\ lastOp.tab = t) =>
         /\ messages[t] = <<[role |-> "assistant", content |-> WelcomeText]>>
         /\ error[t] = Null

C9_Witness ==
  /\ lastOp.op = "send" /\ lastOp.issued /\ lastOp.setThrew
  /\ faults > 0
  /\ Len(messages[1]) >= 2
  /\ messages[1][Len(messages[1])].role = "user"
  /\ error[1] = Null
  /\ storage = lastOp.base

\* C10: every body with enabled = true that is in flight to the persistence
\* endpoint has a temperature in [0,2] and an integer maxTokens in [1,4000].
C10_SubmittedSettingsInRange ==
  \A i \in 1..Len(savePending) :
    LET body == savePending[i] IN
      body.enabled =>
        /\ body.temperature # Null
        /\ body.temperature.n >= 0 /\ body.temperature.n <= 20
        /\ body.maxTokens # Null
        /\ body.maxTokens.n >= 1 /\ body.maxTokens.n <= 4000

\* validation lets the save through: the form is disabled, or no condition
\* of the validation applies
PassesValidation(s) == ~s.enabled \/ ~Invalid(s)

\* a number as the JSON body carries it: NaN has no JSON form and is null
Carried(body, s, f) == IF s[f].nan THEN body[f] = Null ELSE body[f] = s[f]

\* the body holds every field of the settings record with its current value
CarriesSettings(body, s) ==
  /\ DOMAIN body = {"enabled", "apiUrl", "apiKey", "model", "temperature", "maxTokens"}
  /\ body.enabled = s.enabled
  /\ body.apiUrl = s.apiUrl
  /\ body.apiKey = s.apiKey
  /\ body.model = s.model
  /\ Carried(body, s, "temperature")
  /\ Carried(body, s, "maxTokens")

\* C11: a handleSave call that validation does not reject (every call with
\* enabled = false included) puts exactly one POST in flight, whose body is
\* the complete current settings record; when the POST settles,
\* refreshConfig is called once if the response is ok and not at all
\* otherwise, and no further POST is issued.
C11_SaveIssuesOnePost ==
  /\ (cfgLast.op = "save" /\ PassesValidation(cfgLast.settings)) =>
        /\ Len(savePending) = Len(cfgLast.pending) + 1
        /\ SubSeq(savePending, 1, Len(cfgLast.pending)) = cfgLast.pending
        /\ CarriesSettings(savePending[Len(savePending)], cfgLast.settings)
        /\ refreshPending = cfgLast.refreshing
  /\ cfgLast.op = "saveResponse" =>
        /\ savePending = <<>>
        /\ refreshPending = cfgLast.refreshing + (IF cfgLast.outcome = "ok" THEN 1 ELSE 0)

C11_Witness ==
  /\ cfgLast.op = "saveResponse" /\ cfgLast.outcome = "ok"
  /\ ~cfgLast.body.enabled
  /\ cfgLast.body.apiUrl = Blank
  /\ cfgLast.body.maxTokens = Num(4001)
  /\ refreshPending = 1
  /\ savePending = <<>>

\* C12: handleTest puts a request to the test endpoint in flight exactly
\* when apiUrl and apiKey are both non-blank after trimming; its body is
\* the current apiUrl, apiKey and model and nothing else; neither the call
\* nor the settling of the probe changes the settings record, posts to the
\* persistence endpoint or calls refreshConfig.
C12_TestLeavesSettingsAlone ==
  /\ cfgLast.op = "test" =>
        /\ aiSettings = cfgLast.settings
        /\ savePending = cfgLast.pending
        /\ refreshPending = cfgLast.refreshing
        /\ IF Trim(cfgLast.settings.apiUrl) # <<>> /\ Trim(cfgLast.settings.apiKey) # <<>>
             THEN /\ Len(testPending) = Len(cfgLast.tests) + 1
                  /\ LET body == testPending[Len(testPending)] IN
                       /\ DOMAIN body = {"apiUrl", "apiKey", "model"}
                       /\ body.apiUrl = cfgLast.settings.apiUrl
                       /\ body.apiKey = cfgLast.settings.apiKey
                       /\ body.model = cfgLast.settings.model
             ELSE testPending = cfgLast.tests
  /\ cfgLast.op = "testResponse" =>
        /\ aiSettings = cfgLast.settings
        /\ savePending = cfgLast.pending
        /\ refreshPending = cfgLast.refreshing
        /\ testPending = Tail(cfgLast.tests)

C12_Witness ==
  /\ cfgLast.op = "testResponse" /\ cfgLast.outcome = "notOkNotJson"
  /\ aiSettings.model = Blank
  /\ aiSettings.apiKey = SomeKey
  /\ aiSettings.maxTokens = NaN
  /\ savePending = <<>> /\ refreshPending = 0 /\ testPending = <<>>

\* the handler that ran last belongs to instance t and wrote the key
Wrote(t) == RanSave /\ lastOp.tab = t

\* C13: with two instances on the one key, the stored record changes only
\* in a handler that writes it, and every such handler leaves in it the
\* complete transcript of its own instance, whatever the other instance
\* wrote before; and a mount that finds a
\* record written less than 30 minutes before restores exactly the stored
\* transcript.
C13_LastWriteWins ==
  [][(storage' # storage => \E w \in Tabs : Wrote(w)')
     /\ (\A t \in Tabs :
           Wrote(t)' =>
             /\ HoldsTranscript(storage')
             /\ SameMessages(storage'.value.messages.items, messages'[t])
             /\ storage'.value.timestamp = now')
     /\ (\A u \in Tabs :
           (/\ ~mounted[u] /\ mounted'[u]
            /\ HoldsTranscript(storage)
            /\ now - storage.value.timestamp < 1800000)
           => SameMessages(messages'[u], storage.value.messages.items))]_vars

C13_Witness ==
  /\ lastOp.op = "mount" /\ lastOp.tab = 2
  /\ HoldsTranscript(lastOp.cached)
  /\ now > lastOp.cached.value.timestamp
  /\ Len(messages[2]) = 3
  /\ SameMessages(messages[2], lastOp.cached.value.messages.items)
  /\ mounted[1] /\ Len(messages[1]) = 2
  /\ SameMessages(storage.value.messages.items, messages[2])

\* C14: a card starts in static preview; the play action, from the overlay
\* button or the embed button, leaves it playing; the close action leaves it
\* in static preview; opening the external viewer leaves isPlaying and
\* imageError as they were; and the embedded player is rendered exactly
\* when isPlaying is true.
C14_CardIsTwoStateMachine ==
  /\ cardLast.op = "render" => \A c \in Cards : isPlaying[c] = FALSE
  /\ cardLast.op = "play" => isPlaying[cardLast.card] = TRUE
  /\ cardLast.op = "close" => isPlaying[cardLast.card] = FALSE
  /\ cardLast.op = "open" =>
        /\ isPlaying[cardLast.card] = cardLast.playing
        /\ imageError[cardLast.card] = cardLast.failed
  /\ \A c \in Cards : ("iframe" \in Rendered(c)) <=> (isPlaying[c] = TRUE)

C14_Witness ==
  /\ cardLast.op = "open" /\ cardLast.card = 1
  /\ isPlaying[1] /\ imageError[1]
  /\ ~isPlaying[2]
  /\ windows = <<1, 1>>
  /\ "iframe" \in Rendered(1) /\ "iframe" \notin Rendered(2)

\* C15: after a resetChat none of whose storage operations threw, the key
\* has been removed from local storage, the transcript is the welcome
\* message alone, the error state is null and the input text is empty.
C15_ResetRemovesCache ==
  \A t \in Tabs :
    (lastOp.op = "reset" /\ lastOp.tab = t /\ ~lastOp.failed) =>
      /\ storage = Absent
      /\ messages[t] = <<[role |-> "assistant", content |-> WelcomeText]>>
      /\ error[t] = Null
      /\ inputMessage[t] = <<>>

\* a resetChat ran between the send and the settling of its request: the
\* transcript that the settling found is not the one that the send left
ResetWhileInFlight == lastOp.before # lastOp.call.updatedMessages

\* C16: when resetChat ran while a request was in flight and the request
\* then completed successfully, the transcript holds no message from before
\* the reset: it is the transcript that the reset left, with at most the
\* reply appended, and the user message of the send is not in it.
C16_LateReplyKeepsReset ==
  \A t \in Tabs :
    (/\ lastOp.op = "settle" /\ lastOp.tab = t /\ lastOp.wrote
     /\ ResetWhileInFlight)
    => /\ Len(messages[t]) <= Len(lastOp.before) + 1
       /\ SubSeq(messages[t], 1, Len(lastOp.before)) = lastOp.before
       /\ \A i \in 1..Len(messages[t]) : messages[t][i].role # "user"

\* C17: an instance has at most one request outstanding; a sendMessage call
\* made while isLoading is true, or with empty or whitespace-only content,
\* issues no call and leaves transcript, input text, error and isLoading as
\* they were, and every other call issues one request and sets isLoading;
\* the settling of the request, on success and on failure, sets isLoading
\* false.
C17_OneRequestAtATime ==
  [][\A t \in Tabs :
       /\ Len(calls'[t]) <= 1
       /\ (lastOp'.op = "send" /\ lastOp'.tab = t) =>
            IF isLoading[t] \/ Trim(lastOp'.content) = <<>>
              THEN /\ calls'[t] = calls[t]
                   /\ messages'[t] = messages[t]
                   /\ inputMessage'[t] = inputMessage[t]
                   /\ error'[t] = error[t]
                   /\ isLoading'[t] = isLoading[t]
              ELSE /\ Len(calls'[t]) = Len(calls[t]) + 1
                   /\ isLoading'[t] = TRUE
       /\ (lastOp'.op = "settle" /\ lastOp'.tab = t) =>
            /\ Len(calls'[t]) = Len(calls[t]) - 1
            /\ isLoading'[t] = FALSE]_vars

C17_Witness ==
  /\ lastOp.op = "send" /\ lastOp.tab = 1 /\ ~lastOp.issued
  /\ Trim(lastOp.content) # <<>>
  /\ isLoading[1]
  /\ Len(calls[1]) = 1
  /\ Len(messages[1]) >= 4

\* C18: the callback of a timer clears only the message of the showMessage
\* call that started it: while a later showMessage call still has its timer
\* pending, a timer that fires leaves the message of that later call shown.
C18_TimerClearsOwnMessage ==
  [][(timers' = timers - 1 /\ timers' > 0) => cfgMessage' = cfgMessage]_vars

\* C19: while no storage operation has thrown, the transcript of a mounted
\* instance holds at least one message, whatever the key held at the mount
\* and whatever sendMessage and resetChat calls followed.
C19_TranscriptNeverEmpty ==
  \A t \in Tabs : (mounted[t] /\ faults = 0) => Len(messages[t]) >= 1

====
